---- MODULE Spec2Model ----
(***************************************************************************)
(* TalkingCut transcription engine (src/python/transcribe.py): the text    *)
(* and timing pipeline that follows speech recognition and alignment.      *)
(*                                                                         *)
(* A character is a string of length one; a code point outside ASCII is    *)
(* written by its name ("U597D" is U+597D, "U0060" the backquote).  A text   *)
(* is a sequence of                                                        *)
(* characters.  A time is an integer number of ticks, TicksPerMs ticks to  *)
(* the millisecond.  A score is an integer, ScoreOne standing for 1.0.     *)
(***************************************************************************)
EXTENDS Integers, Sequences, FiniteSets, TLC

VARIABLES
    pc,                     \* which call is pending / finished
    original_text,          \* argument text / original_text
    words,                  \* argument words (raw aligned tokens)
    tokens,                 \* value returned by tokenize_mixed_text
    result,                 \* value returned by reconstruct_words_from_text
    aligned,                \* aligned["segments"]: utterances [text, words]
    detected_language,
    silence_threshold,
    min_silence_duration,
    audio_duration_total,   \* librosa.get_duration(path=audio_path)
    word_segments,
    silence_segments,
    all_segments,           \* word_segments + silence_segments after the sort
    segments,               \* value returned by transcribe_audio
    args_min_silence,       \* args.min_silence of main
    device,                 \* argument of get_compute_type
    compute_type,           \* value returned by get_compute_type
    max_gap                 \* argument of merge_latin_characters

vars == <<pc, original_text, words, tokens, result, aligned, detected_language,
          silence_threshold, min_silence_duration, audio_duration_total,
          word_segments, silence_segments, all_segments, segments,
          args_min_silence, device, compute_type, max_gap>>

\* The variables of main, get_compute_type and merge_latin_characters, which
\* the other calls neither read nor write.
arg_vars == <<args_min_silence, device, compute_type, max_gap>>

NoArgs ==
    /\ args_min_silence = 0 /\ device = <<>> /\ compute_type = <<>> /\ max_gap = 0

----------------------------------------------------------------------------
(* Characters                                                              *)

LatinLower ==
    {"a","b","c","d","e","f","g","h","i","j","k","l","m",
     "n","o","p","q","r","s","t","u","v","w","x","y","z"}

LatinUpper ==
    {"A","B","C","D","E","F","G","H","I","J","K","L","M",
     "N","O","P","Q","R","S","T","U","V","W","X","Y","Z"}

DigitChars == {"0","1","2","3","4","5","6","7","8","9"}

Whitespace == {" ", "\t", "\n"}

\* Code points of the ranges 4e00-9fff, 3040-30ff, ac00-d7af that the model uses.
CJKChars ==
    {"U4F60", "U597D", "U4E16", "U754C",
     "U4EC0", "U4E48", "U4F46", "U662F", "U5176", "U5B9E", "U53CD", "U6B63",
     "U53EF", "U80FD", "U5443", "U55EF", "U5BF9", "U5C31", "U5E94", "U8BE5",
     "U6240", "U4EE5", "U7136", "U540E", "U8FD9", "U4E2A", "U90A3",
     "U30FB"}

\* ALL_PUNCTUATION: every character of every category of PUNCTUATION_CONFIG.
ALL_PUNCTUATION ==
    {".", "!", "?", "\"", "'", "(", ")", "[", "]", "{", "}", "<", ">",
     ",", ";", ":", "-", "U2013", "U2014", "/", "\\",
     "@", "#", "$", "%", "^", "&", "*", "_", "+", "=", "|", "~", "U0060",
     "U3002", "UFF01", "UFF1F",
     "UFF08", "UFF09", "U3010", "U3011", "U300A", "U300B", "U300C", "U300D",
     "U300E", "U300F", "U3008", "U3009",
     "UFF0C", "U3001", "UFF1B", "UFF1A", "U2026", "U00B7",
     "UFF5E", "UFFE5", "U301C", "U30FB"}

\* re.match on the ranges 4e00-9fff, 3040-30ff, ac00-d7af
IsCJK(c) == c \in CJKChars

\* str.isalpha() on one character
\* (U+30FB, the katakana middle dot, is in the CJK ranges but is punctuation)
IsAlphaChar(c) == c \in LatinLower \/ c \in LatinUpper \/ c \in (CJKChars \ {"U30FB"})

\* str.lower() on one character
LowerChar(c) ==
    CASE c = "A" -> "a" [] c = "B" -> "b" [] c = "C" -> "c" [] c = "D" -> "d"
      [] c = "E" -> "e" [] c = "F" -> "f" [] c = "G" -> "g" [] c = "H" -> "h"
      [] c = "I" -> "i" [] c = "J" -> "j" [] c = "K" -> "k" [] c = "L" -> "l"
      [] c = "M" -> "m" [] c = "N" -> "n" [] c = "O" -> "o" [] c = "P" -> "p"
      [] c = "Q" -> "q" [] c = "R" -> "r" [] c = "S" -> "s" [] c = "T" -> "t"
      [] c = "U" -> "u" [] c = "V" -> "v" [] c = "W" -> "w" [] c = "X" -> "x"
      [] c = "Y" -> "y" [] c = "Z" -> "z" [] OTHER -> c

Lower(t) == [i \in 1..Len(t) |-> LowerChar(t[i])]

RECURSIVE LStrip(_)
LStrip(t) ==
    IF t # <<>> /\ Head(t) \in Whitespace THEN LStrip(Tail(t)) ELSE t

RECURSIVE RStrip(_)
RStrip(t) ==
    IF t # <<>> /\ t[Len(t)] \in Whitespace
    THEN RStrip(SubSeq(t, 1, Len(t) - 1)) ELSE t

\* str.strip()
Strip(t) == RStrip(LStrip(t))

\* "".join(ss)
RECURSIVE Concat(_)
Concat(ss) == IF ss = <<>> THEN <<>> ELSE Head(ss) \o Concat(Tail(ss))

\* str.isalpha() on a text: non-empty and every character alphabetic
IsAlpha(t) == t # <<>> /\ \A i \in 1..Len(t) : IsAlphaChar(t[i])

is_punctuation(c) == c \in ALL_PUNCTUATION

\* is_punctuation applied to a whole text: membership of the string in a set
\* of one-character strings, so only a one-character text can be a member.
is_punctuation_text(t) == Len(t) = 1 /\ is_punctuation(t[1])

is_single_latin_char(t) ==
    Len(t) = 1 /\ (t[1] \in LatinLower \/ t[1] \in LatinUpper)

----------------------------------------------------------------------------
(* tokenize_mixed_text                                                     *)

get_char_type(c) ==
    IF IsCJK(c) THEN "cjk"
    ELSE IF c \in LatinUpper THEN "latin_upper"
    ELSE IF c \in LatinLower THEN "latin_lower"
    ELSE IF c \in Whitespace THEN "space"
    ELSE IF is_punctuation(c) THEN "punct"
    ELSE "other"

\* if current_token: tokens.append(current_token)
Flush(toks, cur) == IF cur # <<>> THEN Append(toks, cur) ELSE toks

TokState0 == [tokens |-> <<>>, current_token |-> <<>>, prev_type |-> "None"]

\* char_type == 'space' (lines 195-201)
TokSpace(st, c) ==
    [tokens |-> Flush(st.tokens, st.current_token), current_token |-> <<>>,
     prev_type |-> "None"]

\* char_type == 'cjk' (lines 203-209)
TokCJK(st, c) ==
    [tokens |-> Append(Flush(st.tokens, st.current_token), <<c>>),
     current_token |-> <<>>, prev_type |-> "cjk"]

TokLatinNoCase(st, c) ==
    IF st.prev_type = "cjk" \/ st.prev_type = "punct" THEN
        [tokens |-> Flush(st.tokens, st.current_token), current_token |-> <<c>>,
         prev_type |-> get_char_type(c)]
    ELSE
        [tokens |-> st.tokens, current_token |-> Append(st.current_token, c),
         prev_type |-> get_char_type(c)]

\* char_type in ('latin_lower', 'latin_upper') (lines 210-224)
TokLatin(st, c) ==
    IF st.prev_type = "cjk" \/ st.prev_type = "punct" THEN
        [tokens |-> Flush(st.tokens, st.current_token), current_token |-> <<c>>,
         prev_type |-> get_char_type(c)]
    ELSE IF st.prev_type = "latin_lower" /\ get_char_type(c) = "latin_upper" THEN
        [tokens |-> Flush(st.tokens, st.current_token), current_token |-> <<c>>,
         prev_type |-> get_char_type(c)]
    ELSE
        [tokens |-> st.tokens, current_token |-> Append(st.current_token, c),
         prev_type |-> get_char_type(c)]

\* char_type == 'punct' (lines 225-235)
TokPunct(st, c) ==
    IF st.prev_type = "punct" THEN
        [tokens |-> st.tokens, current_token |-> Append(st.current_token, c),
         prev_type |-> "punct"]
    ELSE
        [tokens |-> Flush(st.tokens, st.current_token), current_token |-> <<c>>,
         prev_type |-> "punct"]

TokOtherJoinAfterCJK(st, c) ==
    IF st.prev_type = "punct" THEN
        [tokens |-> Flush(st.tokens, st.current_token), current_token |-> <<c>>,
         prev_type |-> "other"]
    ELSE
        [tokens |-> st.tokens, current_token |-> Append(st.current_token, c),
         prev_type |-> "other"]

\* any other character (lines 236-251)
TokOther(st, c) ==
    IF st.prev_type = "cjk" THEN
        [tokens |-> Append(Flush(st.tokens, st.current_token), <<c>>),
         current_token |-> <<>>, prev_type |-> "other"]
    ELSE IF st.prev_type = "punct" THEN
        [tokens |-> Flush(st.tokens, st.current_token), current_token |-> <<c>>,
         prev_type |-> "other"]
    ELSE
        \* both remaining branches give current_token + c
        [tokens |-> st.tokens, current_token |-> Append(st.current_token, c),
         prev_type |-> "other"]

\* One iteration of the loop over the characters of text.
TokStep(st, c) ==
    LET char_type == get_char_type(c) IN
    IF char_type = "space" THEN TokSpace(st, c)
    ELSE IF char_type = "cjk" THEN TokCJK(st, c)
    ELSE IF char_type \in {"latin_lower", "latin_upper"} THEN TokLatin(st, c)
    ELSE IF char_type = "punct" THEN TokPunct(st, c)
    ELSE TokOther(st, c)

RECURSIVE TokLoop(_, _)
TokLoop(text, n) ==
    IF n = 0 THEN TokState0 ELSE TokStep(TokLoop(text, n - 1), text[n])

tokenize_no_final_flush(text) == TokLoop(text, Len(text)).tokens

tokenize_mixed_text(text) ==
    LET st == TokLoop(text, Len(text)) IN Flush(st.tokens, st.current_token)

----------------------------------------------------------------------------
(* reconstruct_words_from_text                                             *)

\* Score of 1.0.  Scores are whole numbers of 1/12000, so that the mean of up
\* to six scores that are multiples of 0.5 is again a whole number.
ScoreOne == 12000

RECURSIVE SumScores(_)
SumScores(ws) == IF ws = <<>> THEN 0 ELSE Head(ws).score + SumScores(Tail(ws))

\* total_score / char_count if char_count > 0 else 0
MeanScore(ws) == IF Len(ws) > 0 THEN SumScores(ws) \div Len(ws) ELSE 0

\* "".join(collected): the trimmed texts of the collected raw tokens
JoinTrimmed(ws) == Concat([i \in 1..Len(ws) |-> Strip(ws[i].word)])

JoinUntrimmed(ws) == Concat([i \in 1..Len(ws) |-> ws[i].word])

\* len(token) == 1 and the character is CJK (line 294)
is_cjk_char(token) == Len(token) = 1 /\ IsCJK(token[1])

\* CJK token (lines 296-307): one raw token if it is that character or any
\* single character.
RecCJK(ws, st, token) ==
    LET current_word == ws[st.word_idx]
        current_text == Strip(current_word.word)
    IN IF current_text = token \/ Len(current_text) = 1
       THEN [result |-> Append(st.result, current_word), word_idx |-> st.word_idx + 1]
       ELSE st

\* The while loop of lines 319-335: how many raw tokens from idx on are
\* collected, given that n are collected already.
RECURSIVE CollectLatin(_, _, _, _)
CollectLatin(ws, idx, n, target_len) ==
    IF idx <= Len(ws) /\ n < target_len /\ is_single_latin_char(Strip(ws[idx].word))
    THEN CollectLatin(ws, idx + 1, n + 1, target_len)
    ELSE n

MergedWordSwapped(collected) ==
    [word  |-> JoinTrimmed(collected),
     start |-> collected[Len(collected)].start,
     end   |-> collected[1].end,
     score |-> MeanScore(collected)]

MergedWordFullScore(collected) ==
    [word  |-> JoinTrimmed(collected),
     start |-> collected[1].start,
     end   |-> collected[Len(collected)].end,
     score |-> ScoreOne]

\* The merged record of lines 338-344.
MergedWord(collected) ==
    [word  |-> JoinTrimmed(collected),
     start |-> collected[1].start,
     end   |-> collected[Len(collected)].end,
     score |-> MeanScore(collected)]

\* Alphabetic token (lines 308-344).
RecAlpha(ws, st, token) ==
    LET n         == CollectLatin(ws, st.word_idx, 0, Len(token))
        collected == SubSeq(ws, st.word_idx, st.word_idx + n - 1)
    IN IF n > 0
       THEN [result |-> Append(st.result, MergedWord(collected)),
             word_idx |-> st.word_idx + n]
       ELSE st

\* The for loop of lines 353-364 over the first k characters of the token:
\* the raw-token index after it (a mismatch does not end the loop).
RECURSIVE CollectPunct(_, _, _, _)
CollectPunct(ws, idx, token, k) ==
    IF k = 0 THEN idx
    ELSE LET i == CollectPunct(ws, idx, token, k - 1)
         IN IF i > Len(ws) THEN i
            ELSE IF Strip(ws[i].word) = <<token[k]>> \/ is_punctuation_text(Strip(ws[i].word))
                 THEN i + 1
                 ELSE i

\* The merged record of lines 366-372.
MergedPunct(collected) ==
    [word  |-> JoinTrimmed(collected),
     start |-> collected[1].start,
     end   |-> collected[Len(collected)].end,
     score |-> ScoreOne]

\* Punctuation-group token (lines 347-372).
RecPunct(ws, st, token) ==
    LET next      == CollectPunct(ws, st.word_idx, token, Len(token))
        collected == SubSeq(ws, st.word_idx, next - 1)
    IN IF next > st.word_idx
       THEN [result |-> Append(st.result, MergedPunct(collected)), word_idx |-> next]
       ELSE st

\* Any other token (lines 373-380).
RecOther(ws, st, token) ==
    LET current_word == ws[st.word_idx]
        current_text == Strip(current_word.word)
    IN IF current_text = token \/ (Len(token) = 1 /\ Len(current_text) = 1)
       THEN [result |-> Append(st.result, current_word), word_idx |-> st.word_idx + 1]
       ELSE st

\* One iteration of the loop over the tokens (lines 289-380); once the raw
\* tokens are used up the loop breaks, so later iterations change nothing.
RecStep(ws, st, token) ==
    IF st.word_idx > Len(ws) THEN st
    ELSE IF is_cjk_char(token) THEN RecCJK(ws, st, token)
    ELSE IF IsAlpha(token) THEN RecAlpha(ws, st, token)
    ELSE IF \A i \in 1..Len(token) : is_punctuation(token[i]) THEN RecPunct(ws, st, token)
    ELSE RecOther(ws, st, token)

RECURSIVE RecLoop(_, _, _)
RecLoop(ws, toks, n) ==
    IF n = 0 THEN [result |-> <<>>, word_idx |-> 1]
    ELSE RecStep(ws, RecLoop(ws, toks, n - 1), toks[n])

reconstruct_drop_remaining(ws, text) ==
    IF ws = <<>> \/ text = <<>> THEN ws
    ELSE LET toks == tokenize_mixed_text(text)
         IN RecLoop(ws, toks, Len(toks)).result

reconstruct_empty_on_no_text(ws, text) ==
    IF ws = <<>> \/ text = <<>> THEN <<>>
    ELSE LET toks == tokenize_mixed_text(text)
             st   == RecLoop(ws, toks, Len(toks))
         IN st.result \o SubSeq(ws, st.word_idx, Len(ws))

reconstruct_words_from_text(ws, text) ==
    IF ws = <<>> \/ text = <<>> THEN ws
    ELSE LET toks == tokenize_mixed_text(text)
             st   == RecLoop(ws, toks, Len(toks))
         IN st.result \o SubSeq(ws, st.word_idx, Len(ws))

----------------------------------------------------------------------------
(* merge_latin_characters                                                  *)

\* is_single_latin_char(word.get("word", "").strip())
IsSingleLetterToken(w) == is_single_latin_char(Strip(w.word))

MergeCollectNoGap(ws, j, gap_limit) ==
    CHOOSE k \in j..(Len(ws) + 1) :
        /\ \A m \in j..(k - 1) : IsSingleLetterToken(ws[m])
        /\ k <= Len(ws) => ~IsSingleLetterToken(ws[k])

\* The look-ahead loop of lines 419-436: the index after the last raw token
\* collected; end_time is the end of the token before j.
RECURSIVE MergeCollect(_, _, _)
MergeCollect(ws, j, gap_limit) ==
    IF j > Len(ws) THEN j
    ELSE IF ~IsSingleLetterToken(ws[j]) THEN j
    ELSE IF ws[j].start - ws[j - 1].end > gap_limit THEN j
    ELSE MergeCollect(ws, j + 1, gap_limit)

\* The merged record of lines 439-446.
MergedLatin(collected) ==
    [word  |-> JoinTrimmed(collected),
     start |-> collected[1].start,
     end   |-> collected[Len(collected)].end,
     score |-> MeanScore(collected)]

\* The outer loop of lines 401-448 from index i on.
RECURSIVE MergeLoop(_, _, _, _)
MergeLoop(ws, i, merged, gap_limit) ==
    IF i > Len(ws) THEN merged
    ELSE IF ~IsSingleLetterToken(ws[i])
         THEN MergeLoop(ws, i + 1, Append(merged, ws[i]), gap_limit)
         ELSE LET j == MergeCollect(ws, i + 1, gap_limit)
              IN MergeLoop(ws, j, Append(merged, MergedLatin(SubSeq(ws, i, j - 1))),
                           gap_limit)

merge_latin_characters(ws, gap_limit) ==
    IF ws = <<>> THEN ws ELSE MergeLoop(ws, 1, <<>>, gap_limit)

----------------------------------------------------------------------------
(* get_compute_type                                                        *)

get_compute_type(dev) ==
    IF dev = <<"c", "u", "d", "a">> THEN <<"f", "l", "o", "a", "t", "1", "6">>
    ELSE <<"i", "n", "t", "8">>

----------------------------------------------------------------------------
(* is_filler_word, is_latin_text                                           *)

FILLER_WORDS_en ==
    {<<"u", "h">>, <<"u", "m">>, <<"l", "i", "k", "e">>,
     <<"y", "o", "u", " ", "k", "n", "o", "w">>,
     <<"b", "a", "s", "i", "c", "a", "l", "l", "y">>,
     <<"a", "c", "t", "u", "a", "l", "l", "y">>,
     <<"l", "i", "t", "e", "r", "a", "l", "l", "y">>,
     <<"s", "o">>, <<"y", "e", "a", "h">>, <<"r", "i", "g", "h", "t">>,
     <<"i", " ", "m", "e", "a", "n">>, <<"k", "i", "n", "d", " ", "o", "f">>,
     <<"s", "o", "r", "t", " ", "o", "f">>, <<"w", "e", "l", "l">>}

FILLER_WORDS_zh ==
    {<<"U90A3", "U4E2A">>, <<"U5C31", "U662F">>, <<"U7136", "U540E">>,
     <<"U5443">>, <<"U55EF">>, <<"U8FD9", "U4E2A">>, <<"U4EC0", "U4E48">>,
     <<"U5BF9">>, <<"U5C31">>, <<"U5176", "U5B9E">>, <<"U53CD", "U6B63">>,
     <<"U6240", "U4EE5">>, <<"U4F46", "U662F">>, <<"U53EF", "U80FD">>,
     <<"U5E94", "U8BE5">>}

\* language.startswith("zh")
StartsWithZh(language) ==
    Len(language) >= 2 /\ language[1] = "z" /\ language[2] = "h"

is_filler_word_any_language(text, language) ==
    Strip(Lower(text)) \in FILLER_WORDS_zh \cup FILLER_WORDS_en

is_filler_word(text, language) ==
    LET cleaned == Strip(Lower(text))
    IN IF StartsWithZh(language) THEN cleaned \in FILLER_WORDS_zh
       ELSE cleaned \in FILLER_WORDS_en

\* \w: a letter, a digit or the underscore
IsWordChar(c) == IsAlphaChar(c) \/ c \in DigitChars \/ c = "_"

is_latin_text_letters_only(text) ==
    LET cleaned == SelectSeq(text, LAMBDA c : IsAlphaChar(c))
    IN cleaned # <<>> /\ \A i \in 1..Len(cleaned) : ~IsCJK(cleaned[i])

is_latin_text(text) ==
    LET cleaned == SelectSeq(text, IsWordChar)
    IN cleaned # <<>> /\ \A i \in 1..Len(cleaned) : ~IsCJK(cleaned[i])

\* re.search(r'[...]$', word_text) with the six sentence-ending marks
TerminalMarks == {"U3002", "UFF1F", "UFF01", ".", "?", "!"}

ends_with_punctuation(word_text) ==
    word_text # <<>> /\ word_text[Len(word_text)] \in TerminalMarks

----------------------------------------------------------------------------
(* Times and rounding                                                      *)

\* Times are whole ticks, four to the millisecond, so that round(x, 3)
\* changes a time that is not a whole number of milliseconds.
TicksPerMs == 4

\* round() to a multiple of unit.  A value exactly halfway is rounded up; the
\* inputs of the model are never halfway (in Python the outcome depends on the
\* binary representation of the decimal).
RoundTo(x, unit) ==
    LET q == x \div unit
        r == x % unit
    IN IF 2 * r < unit THEN q * unit ELSE (q + 1) * unit

\* round(x, 3) on a time
Round3(x) == RoundTo(x, TicksPerMs)

\* round(x, 1) on a time
Round1(x) == RoundTo(x, 100 * TicksPerMs)

\* round(x, 3) on a score
Round3Score(x) == RoundTo(x, ScoreOne \div 1000)

----------------------------------------------------------------------------
(* transcribe_audio after alignment                                        *)

\* Lines 565-568: every utterance's words are reconstructed from its text.
ReconstructAll(segs) ==
    [k \in 1..Len(segs) |->
        [text  |-> segs[k].text,
         words |-> reconstruct_words_from_text(segs[k].words, segs[k].text)]]

\* The record of lines 591-603 (ids number the records in creation order).
WordSegment(word_info, id, segment_id, language) ==
    LET word_text == Strip(word_info.word)
    IN [id         |-> id,
        text       |-> word_text,
        start      |-> Round3(word_info.start),
        end        |-> Round3(word_info.end),
        confidence |-> Round3Score(word_info.score),
        type       |-> IF is_filler_word(word_text, language) THEN "filler" ELSE "word",
        deleted    |-> FALSE,
        segmentId  |-> segment_id,
        endsWithPunctuation |-> ends_with_punctuation(word_text),
        language   |-> language]

RECURSIVE CollectWordsNewestFirst(_, _, _, _, _)
CollectWordsNewestFirst(acc, ws, n, segment_id, language) ==
    IF n = 0 THEN acc
    ELSE LET before == CollectWordsNewestFirst(acc, ws, n - 1, segment_id, language)
         IN IF Strip(ws[n].word) = <<>> THEN before
            ELSE <<WordSegment(ws[n], Len(before) + 1, segment_id, language)>>
                     \o before

\* The inner loop of lines 578-603 over the first n words of one utterance.
RECURSIVE CollectWords(_, _, _, _, _)
CollectWords(acc, ws, n, segment_id, language) ==
    IF n = 0 THEN acc
    ELSE LET before == CollectWords(acc, ws, n - 1, segment_id, language)
         IN IF Strip(ws[n].word) = <<>> THEN before
            ELSE Append(before,
                        WordSegment(ws[n], Len(before) + 1, segment_id, language))

\* The outer loop of lines 572-603 over the first k utterances.
RECURSIVE CollectSegments(_, _, _)
CollectSegments(segs, k, language) ==
    IF k = 0 THEN <<>>
    ELSE CollectWords(CollectSegments(segs, k - 1, language),
                      segs[k].words, Len(segs[k].words), k, language)

SilenceSegmentFromZero(id, start, end, duration, is_last) ==
    [id         |-> id,
     text       |-> <<"[...", duration, "s]">>,
     start      |-> 0,
     end        |-> end,
     confidence |-> ScoreOne,
     type       |-> "silence",
     deleted    |-> FALSE,
     duration   |-> duration,
     isLastInSegment  |-> is_last,
     hasTrailingSpace |-> FALSE]

\* A silence record (lines 622-633, 646-657, 667-678).
SilenceSegment(id, start, end, duration, is_last) ==
    [id         |-> id,
     text       |-> <<"[...", duration, "s]">>,
     start      |-> start,
     end        |-> end,
     confidence |-> ScoreOne,
     type       |-> "silence",
     deleted    |-> FALSE,
     duration   |-> duration,
     isLastInSegment  |-> is_last,
     hasTrailingSpace |-> FALSE]

OpeningSilenceStrict(ws, min_silence, next_id) ==
    IF ws # <<>> /\ ws[1].start > min_silence
    THEN << SilenceSegment(next_id, 0, Round3(ws[1].start), Round1(ws[1].start), TRUE) >>
    ELSE <<>>

\* 1. Opening silence (lines 617-633).
OpeningSilence(ws, min_silence, next_id) ==
    IF ws # <<>> /\ ws[1].start >= min_silence
    THEN << SilenceSegment(next_id, 0, Round3(ws[1].start), Round1(ws[1].start), TRUE) >>
    ELSE <<>>

\* 2. Silences between the first n consecutive pairs (lines 635-657).
RECURSIVE InterWordSilences(_, _, _, _, _)
InterWordSilences(acc, ws, n, min_silence, threshold) ==
    IF n = 0 THEN acc
    ELSE LET before == InterWordSilences(acc, ws, n - 1, min_silence, threshold)
             gap    == ws[n + 1].start - ws[n].end
         IN IF gap >= min_silence
            THEN Append(before,
                        SilenceSegment(Len(ws) + Len(before) + 1,
                                       Round3(ws[n].end), Round3(ws[n + 1].start),
                                       Round1(gap), gap >= threshold))
            ELSE before

TrailingSilenceUnguarded(ws, min_silence, total, next_id) ==
    LET last_end == IF ws = <<>> THEN 0 ELSE ws[Len(ws)].end
    IN IF total - last_end >= min_silence
       THEN << SilenceSegment(next_id, Round3(last_end), Round3(total),
                              Round1(total - last_end), TRUE) >>
       ELSE <<>>

\* 3. Trailing silence (lines 659-678).
TrailingSilence(ws, min_silence, total, next_id) ==
    IF ws # <<>> /\ total - ws[Len(ws)].end >= min_silence
    THEN << SilenceSegment(next_id, Round3(ws[Len(ws)].end), Round3(total),
                           Round1(total - ws[Len(ws)].end), TRUE) >>
    ELSE <<>>

\* Lines 615-678.
DetectSilences(ws, min_silence, threshold, total) ==
    LET opening == OpeningSilence(ws, min_silence, Len(ws) + 1)
        inter   == InterWordSilences(opening, ws,
                                     IF Len(ws) > 0 THEN Len(ws) - 1 ELSE 0,
                                     min_silence, threshold)
    IN inter \o TrailingSilence(ws, min_silence, total, Len(ws) + Len(inter) + 1)

\* list.sort(key=start) is stable: x, the last element, goes after every
\* element whose start is not greater.
RECURSIVE InsertByStart(_, _)
InsertByStart(sorted, x) ==
    IF sorted = <<>> THEN <<x>>
    ELSE IF sorted[Len(sorted)].start <= x.start THEN Append(sorted, x)
    ELSE Append(InsertByStart(SubSeq(sorted, 1, Len(sorted) - 1), x),
                sorted[Len(sorted)])

RECURSIVE UnstableSortByStart(_)
UnstableSortByStart(s) ==
    IF s = <<>> THEN <<>>
    ELSE LET rest == UnstableSortByStart(Tail(s))
             x    == Head(s)
             \* x goes after the elements with the same start
             keep == Cardinality({i \in 1..Len(rest) : rest[i].start <= x.start})
         IN SubSeq(rest, 1, keep) \o <<x>> \o SubSeq(rest, keep + 1, Len(rest))

\* all_segments.sort(key=lambda x: x["start"]) (line 682)
RECURSIVE SortByStart(_)
SortByStart(s) ==
    IF s = <<>> THEN <<>>
    ELSE InsertByStart(SortByStart(SubSeq(s, 1, Len(s) - 1)), s[Len(s)])

\* The final pass on a silence (lines 693-696, 714-715).
FinalSilenceKeepFlag(seg, is_final_seg, threshold) == seg

FinalSilence(seg, is_final_seg, threshold) ==
    [seg EXCEPT !.isLastInSegment = (seg.duration >= threshold \/ is_final_seg),
                !.hasTrailingSpace = FALSE]

\* is_last of a word (lines 699-704).
WordIsLastIgnoringNext(seg, is_final_seg, next_is_silence) ==
    is_final_seg \/ seg.endsWithPunctuation

WordIsLast(seg, is_final_seg, next_is_silence) ==
    is_final_seg \/ (seg.endsWithPunctuation /\ ~next_is_silence)

\* has_trailing_space of a word (lines 706-708).
WordTrailingSpaceLettersOnly(seg, is_final_seg, is_last) ==
    ~is_final_seg /\ ~is_last /\ is_latin_text_letters_only(seg.text)

WordTrailingSpace(seg, is_final_seg, is_last) ==
    ~is_final_seg /\ ~is_last /\ is_latin_text(seg.text)

\* The final pass on a word or filler (lines 697-715): the temporary field
\* is deleted and the two flags are set.
FinalWord(seg, is_final_seg, next_is_silence) ==
    LET is_last == WordIsLast(seg, is_final_seg, next_is_silence)
    IN [id         |-> seg.id,
        text       |-> seg.text,
        start      |-> seg.start,
        end        |-> seg.end,
        confidence |-> seg.confidence,
        type       |-> seg.type,
        deleted    |-> seg.deleted,
        segmentId  |-> seg.segmentId,
        language   |-> seg.language,
        isLastInSegment  |-> is_last,
        hasTrailingSpace |-> WordTrailingSpace(seg, is_final_seg, is_last)]

\* Lines 684-715.
FinalPass(all, threshold) ==
    [i \in 1..Len(all) |->
        LET is_final_seg == (i = Len(all))
        IN IF all[i].type = "silence"
           THEN FinalSilence(all[i], is_final_seg, threshold)
           ELSE FinalWord(all[i], is_final_seg,
                          ~is_final_seg /\ all[i + 1].type = "silence")]

----------------------------------------------------------------------------
(* Bounded inputs                                                          *)

RECURSIVE SeqsUpTo(_, _)
SeqsUpTo(S, n) ==
    IF n = 0 THEN {<<>>}
    ELSE LET shorter == SeqsUpTo(S, n - 1)
         IN shorter \cup {Append(s, x) : s \in {t \in shorter : Len(t) = n - 1}, x \in S}

MaxTextLen == 4

\* One or two characters of every class the tokenizer distinguishes.
TokAlphabet == {"a", "B", "U597D", ".", ",", "7", " "}

----------------------------------------------------------------------------
(* Specification of the tokenizer alone                                    *)

Idle ==
    /\ words = <<>> /\ result = <<>>
    /\ aligned = <<>> /\ detected_language = <<"e", "n">>
    /\ silence_threshold = 0 /\ min_silence_duration = 0
    /\ audio_duration_total = 0
    /\ word_segments = <<>> /\ silence_segments = <<>>
    /\ all_segments = <<>> /\ segments = <<>>

InitTok ==
    /\ NoArgs
    /\ pc = "tokenize"
    /\ original_text \in SeqsUpTo(TokAlphabet, MaxTextLen)
    /\ tokens = <<>>
    /\ Idle

CallTokenize ==
    /\ pc = "tokenize"
    /\ tokens' = tokenize_mixed_text(original_text)
    /\ pc' = "tokenized"
    /\ UNCHANGED <<original_text, words, result, aligned, detected_language,
                   silence_threshold, min_silence_duration, audio_duration_total,
                   word_segments, silence_segments, all_segments, segments>>
    /\ UNCHANGED arg_vars

NextTok == CallTokenize

SpecTok == InitTok /\ [][NextTok]_vars

----------------------------------------------------------------------------
(* Specification of reconstruct_words_from_text alone                      *)

MaxRecTextLen == 3

MaxRawTokens == 2

\* Characters of the recognized text: a letter of each case, a CJK code
\* point, a punctuation mark, a digit and a blank.
RecAlphabet == {"a", "B", "U597D", ".", "7", " "}

\* Texts of raw tokens: single characters of each class, a letter padded with
\* a blank, and a token of two letters.
RawTexts ==
    {<<"a">>, <<"B">>, <<"U597D">>, <<".">>, <<"7">>, <<" ", "a">>, <<"a", "B">>}

\* The i-th raw token of an utterance, in time order, 0.1 s long, with text t.
RawAt(i, t) ==
    [word  |-> t,
     start |-> (i - 1) * 100 * TicksPerMs,
     end   |-> i * 100 * TicksPerMs,
     score |-> IF i % 2 = 1 THEN ScoreOne ELSE ScoreOne \div 2]

RawSeqs == {[i \in 1..Len(ts) |-> RawAt(i, ts[i])] : ts \in SeqsUpTo(RawTexts, MaxRawTokens)}

InitRec ==
    /\ NoArgs
    /\ pc = "reconstruct"
    /\ original_text \in SeqsUpTo(RecAlphabet, MaxRecTextLen)
    /\ words \in RawSeqs
    /\ tokens = <<>> /\ result = <<>>
    /\ aligned = <<>> /\ detected_language = <<"e", "n">>
    /\ silence_threshold = 0 /\ min_silence_duration = 0
    /\ audio_duration_total = 0
    /\ word_segments = <<>> /\ silence_segments = <<>>
    /\ all_segments = <<>> /\ segments = <<>>

CallReconstruct ==
    /\ pc = "reconstruct"
    /\ result' = reconstruct_words_from_text(words, original_text)
    /\ pc' = "reconstructed"
    /\ UNCHANGED <<original_text, words, tokens, aligned, detected_language,
                   silence_threshold, min_silence_duration, audio_duration_total,
                   word_segments, silence_segments, all_segments, segments>>
    /\ UNCHANGED arg_vars

NextRec == CallReconstruct

SpecRec == InitRec /\ [][NextRec]_vars

----------------------------------------------------------------------------
(* Specification of transcribe_audio after alignment                       *)

MaxWords == 2

\* DEFAULT_MIN_SILENCE_DURATION = 0.5
DEFAULT_MIN_SILENCE_DURATION == 500 * TicksPerMs

\* silence_threshold: float = 1.0
DEFAULT_SILENCE_THRESHOLD == 1000 * TicksPerMs

\* Texts of the aligned tokens: a letter, a word that ends a sentence, a blank.
WordTexts == {<<"a">>, <<"a", ".">>, <<" ">>}

\* Start times of the aligned tokens: 0 s, 0.14 s, 1.06025 s and 2.3 s.  With
\* tokens of 0.1 s the gaps are 0.04 s (below the minimum), 0.82 s (a silence
\* shorter than one second), 0.96 s (a silence that rounds to one second) and
\* more than one second.
StartTimes == {0, 140 * TicksPerMs, 1060 * TicksPerMs + 1, 2300 * TicksPerMs}

RawToken(t, start) ==
    [word |-> t, start |-> start, end |-> start + 100 * TicksPerMs, score |-> ScoreOne]

RawTokens == {RawToken(t, st) : t \in WordTexts, st \in StartTimes}

\* One utterance: its text is missing, or it is the text of its tokens.
Utterance(ws, with_text) ==
    [text |-> IF with_text THEN JoinUntrimmed(ws) ELSE <<>>, words |-> ws]

\* The tokens ws as one utterance (cut >= Len(ws)) or as two.
Utterances(ws, cut, with_text) ==
    IF ws = <<>> THEN <<>>
    ELSE IF cut >= Len(ws) THEN << Utterance(ws, with_text) >>
    ELSE << Utterance(SubSeq(ws, 1, cut), with_text),
            Utterance(SubSeq(ws, cut + 1, Len(ws)), with_text) >>

AlignedInputs(tokenSeqs) ==
    {Utterances(ws, cut, with_text) :
        ws \in tokenSeqs, cut \in 1..MaxWords, with_text \in BOOLEAN}

NotCalled ==
    /\ original_text = <<>> /\ words = <<>> /\ tokens = <<>> /\ result = <<>>
    /\ word_segments = <<>> /\ silence_segments = <<>>
    /\ all_segments = <<>> /\ segments = <<>>

Init ==
    /\ NoArgs
    /\ pc = "aligned"
    /\ aligned \in AlignedInputs(SeqsUpTo(RawTokens, MaxWords))
    /\ detected_language = <<"e", "n">>
    /\ silence_threshold \in {DEFAULT_MIN_SILENCE_DURATION, DEFAULT_SILENCE_THRESHOLD}
    /\ min_silence_duration \in {0, DEFAULT_MIN_SILENCE_DURATION}
    /\ audio_duration_total \in {1160 * TicksPerMs + 1, 3000 * TicksPerMs}
    /\ NotCalled

\* transcribe_audio from line 562 to its return.
Transcribe ==
    /\ pc = "aligned"
    /\ LET ws   == CollectSegments(ReconstructAll(aligned), Len(aligned), detected_language)
           sils == DetectSilences(ws, min_silence_duration, silence_threshold,
                                  audio_duration_total)
           all  == SortByStart(ws \o sils)
       IN /\ word_segments' = ws
          /\ silence_segments' = sils
          /\ all_segments' = all
          /\ segments' = FinalPass(all, silence_threshold)
    /\ pc' = "done"
    /\ UNCHANGED <<original_text, words, tokens, result, aligned, detected_language,
                   silence_threshold, min_silence_duration, audio_duration_total>>
    /\ UNCHANGED arg_vars

Next == Transcribe

Spec == Init /\ [][Next]_vars

----------------------------------------------------------------------------
(* The same, on words of every kind the final pass distinguishes           *)

MaxFlagWords == 2

\* A Latin word, a Latin word that ends a sentence, a CJK character, a CJK
\* character with a full stop, a number, a lone punctuation mark, an English
\* filler and a Mandarin filler.
FlagTexts ==
    {<<"a">>, <<"a", ".">>, <<"U597D">>, <<"U597D", "U3002">>, <<"7">>, <<".">>,
     <<"u", "m">>, <<"U55EF">>}

\* The gap before a token: 0.05 s (no silence) or 0.96 s (a silence).
FlagGaps == {50 * TicksPerMs, 960 * TicksPerMs}

\* Tokens of 0.1 s, each after the gap chosen for it.
RECURSIVE FlagTokens(_)
FlagTokens(choices) ==
    IF choices = <<>> THEN <<>>
    ELSE LET before == FlagTokens(SubSeq(choices, 1, Len(choices) - 1))
             c      == choices[Len(choices)]
             start  == (IF before = <<>> THEN 0 ELSE before[Len(before)].end) + c[2]
         IN Append(before, RawToken(c[1], start))

InitFlags ==
    /\ NoArgs
    /\ pc = "aligned"
    /\ \E choices \in SeqsUpTo(FlagTexts \X FlagGaps, MaxFlagWords),
          with_text \in BOOLEAN :
          aligned = Utterances(FlagTokens(choices), Len(choices), with_text)
    /\ detected_language \in {<<"e", "n">>, <<"z", "h">>}
    /\ silence_threshold = DEFAULT_SILENCE_THRESHOLD
    /\ min_silence_duration = DEFAULT_MIN_SILENCE_DURATION
    /\ audio_duration_total \in {1000 * TicksPerMs, 3000 * TicksPerMs}
    /\ NotCalled

SpecFlags == InitFlags /\ [][Next]_vars

----------------------------------------------------------------------------
(* The same, on words in time order that do not overlap                    *)

MaxOrderedWords == 3

\* The gap before a token (none, 0.125 s or 0.625 s) and the length of a
\* token (none or 0.125 s).  All word times are binary fractions, so that the
\* float subtractions of lines 640 and 663 give the exact gaps.
OrderedGaps == {0, 125 * TicksPerMs, 625 * TicksPerMs}

OrderedLengths == {0, 125 * TicksPerMs}

RECURSIVE OrderedTokens(_)
OrderedTokens(choices) ==
    IF choices = <<>> THEN <<>>
    ELSE LET before == OrderedTokens(SubSeq(choices, 1, Len(choices) - 1))
             c      == choices[Len(choices)]
             start  == (IF before = <<>> THEN 0 ELSE before[Len(before)].end) + c[1]
         IN Append(before,
                   [word |-> <<"a">>, start |-> start, end |-> start + c[2],
                    score |-> ScoreOne])

InitOrdered ==
    /\ NoArgs
    /\ pc = "aligned"
    /\ \E choices \in SeqsUpTo(OrderedGaps \X OrderedLengths, MaxOrderedWords),
          with_text \in BOOLEAN :
          aligned = Utterances(OrderedTokens(choices), Len(choices), with_text)
    /\ detected_language = <<"e", "n">>
    /\ silence_threshold = DEFAULT_SILENCE_THRESHOLD
    /\ min_silence_duration \in {125 * TicksPerMs, DEFAULT_MIN_SILENCE_DURATION}
    /\ audio_duration_total \in {2260 * TicksPerMs, 3010 * TicksPerMs}
    /\ NotCalled

SpecOrdered == InitOrdered /\ [][Next]_vars

----------------------------------------------------------------------------
(* Specification of main: the command line down to the returned segments   *)

MaxMainWords == 2

\* Values of --min-silence: below, at and above the 0.5 of line 834.
MinSilenceArgs == {200 * TicksPerMs, 500 * TicksPerMs, 1000 * TicksPerMs}

\* The gap before a token: 0.3 s, 0.7 s or 1.2 s.
MainGaps == {300 * TicksPerMs, 700 * TicksPerMs, 1200 * TicksPerMs}

MainTexts == {<<"a">>, <<"a", ".">>}

InitMain ==
    /\ pc = "main"
    /\ args_min_silence \in MinSilenceArgs
    /\ device = <<>> /\ compute_type = <<>> /\ max_gap = 0
    /\ \E choices \in SeqsUpTo(MainTexts \X MainGaps, MaxMainWords),
          with_text \in BOOLEAN :
          aligned = Utterances(FlagTokens(choices), Len(choices), with_text)
    /\ detected_language = <<"e", "n">>
    /\ silence_threshold = DEFAULT_SILENCE_THRESHOLD
    /\ min_silence_duration = DEFAULT_MIN_SILENCE_DURATION
    /\ audio_duration_total \in {1000 * TicksPerMs, 4000 * TicksPerMs}
    /\ NotCalled

\* main (lines 825-835): transcribe_audio is called with
\* silence_threshold = args.min_silence and min_silence_duration = 0.5, and
\* runs to its return.
Main ==
    /\ pc = "main"
    /\ silence_threshold' = args_min_silence
    /\ min_silence_duration' = 500 * TicksPerMs
    /\ LET ws   == CollectSegments(ReconstructAll(aligned), Len(aligned), detected_language)
           sils == DetectSilences(ws, min_silence_duration', silence_threshold',
                                  audio_duration_total)
           all  == SortByStart(ws \o sils)
       IN /\ word_segments' = ws
          /\ silence_segments' = sils
          /\ all_segments' = all
          /\ segments' = FinalPass(all, silence_threshold')
    /\ pc' = "done"
    /\ UNCHANGED <<original_text, words, tokens, result, aligned, detected_language,
                   audio_duration_total>>
    /\ UNCHANGED arg_vars

NextMain == Main

SpecMain == InitMain /\ [][NextMain]_vars

----------------------------------------------------------------------------
(* Specification of merge_latin_characters alone                           *)

MaxMergeTokens == 3

\* Texts of raw tokens: a letter, a padded upper-case letter, a CJK
\* character (alphabetic, not ASCII) and a token of two letters.
MergeTexts == {<<"a">>, <<" ", "B">>, <<"U597D">>, <<"a", "b">>}

\* The gap before a token: 0.125 s, 0.25 s or 0.375 s.  These times, and all
\* sums of them, are binary fractions, so that the float subtraction of
\* line 429 gives the exact gap.
MergeGaps == {125 * TicksPerMs, 250 * TicksPerMs, 375 * TicksPerMs}

\* max_gap: the default 0.3, and 0.25, which one of the gaps equals
MaxGaps == {300 * TicksPerMs, 250 * TicksPerMs}

\* Tokens of 0.125 s, each after the gap chosen for it, with alternating
\* scores.
RECURSIVE MergeTokens(_)
MergeTokens(choices) ==
    IF choices = <<>> THEN <<>>
    ELSE LET before == MergeTokens(SubSeq(choices, 1, Len(choices) - 1))
             c      == choices[Len(choices)]
             start  == (IF before = <<>> THEN 0 ELSE before[Len(before)].end) + c[2]
         IN Append(before,
                   [word  |-> c[1],
                    start |-> start,
                    end   |-> start + 125 * TicksPerMs,
                    score |-> IF Len(choices) % 2 = 1 THEN ScoreOne
                              ELSE ScoreOne \div 2])

InitMerge ==
    /\ pc = "merge_latin_characters"
    /\ \E choices \in SeqsUpTo(MergeTexts \X MergeGaps, MaxMergeTokens) :
          words = MergeTokens(choices)
    /\ max_gap \in MaxGaps
    /\ args_min_silence = 0 /\ device = <<>> /\ compute_type = <<>>
    /\ original_text = <<>> /\ tokens = <<>> /\ result = <<>>
    /\ aligned = <<>> /\ detected_language = <<"e", "n">>
    /\ silence_threshold = 0 /\ min_silence_duration = 0
    /\ audio_duration_total = 0
    /\ word_segments = <<>> /\ silence_segments = <<>>
    /\ all_segments = <<>> /\ segments = <<>>

CallMergeLatinCharacters ==
    /\ pc = "merge_latin_characters"
    /\ result' = merge_latin_characters(words, max_gap)
    /\ pc' = "merged"
    /\ UNCHANGED <<original_text, words, tokens, aligned, detected_language,
                   silence_threshold, min_silence_duration, audio_duration_total,
                   word_segments, silence_segments, all_segments, segments>>
    /\ UNCHANGED arg_vars

NextMerge == CallMergeLatinCharacters

SpecMerge == InitMerge /\ [][NextMerge]_vars

----------------------------------------------------------------------------
(* Specification of get_compute_type alone                                 *)

MaxDeviceLen == 4

\* The letters of the device names "cpu", "cuda" and "mps".
DeviceAlphabet == {"c", "p", "u", "d", "a", "m", "s"}

InitDevice ==
    /\ pc = "get_compute_type"
    /\ device \in SeqsUpTo(DeviceAlphabet, MaxDeviceLen)
    /\ compute_type = <<>>
    /\ args_min_silence = 0 /\ max_gap = 0
    /\ original_text = <<>> /\ words = <<>> /\ tokens = <<>> /\ result = <<>>
    /\ aligned = <<>> /\ detected_language = <<"e", "n">>
    /\ silence_threshold = 0 /\ min_silence_duration = 0
    /\ audio_duration_total = 0
    /\ word_segments = <<>> /\ silence_segments = <<>>
    /\ all_segments = <<>> /\ segments = <<>>

CallGetComputeType ==
    /\ pc = "get_compute_type"
    /\ compute_type' = get_compute_type(device)
    /\ pc' = "compute_type_returned"
    /\ UNCHANGED <<original_text, words, tokens, result, aligned, detected_language,
                   silence_threshold, min_silence_duration, audio_duration_total,
                   word_segments, silence_segments, all_segments, segments,
                   args_min_silence, device, max_gap>>

NextDevice == CallGetComputeType

SpecDevice == InitDevice /\ [][NextDevice]_vars

----------------------------------------------------------------------------
(* Specification of is_filler_word alone                                   *)

MaxFillerLen == 3

\* Characters of the texts: the letters of "um" in both cases, a blank, and
\* the code points of three Mandarin fillers, one of them two characters long.
FillerAlphabet == {"u", "m", "U", " ", "U55EF", "U5C31", "U662F"}

\* Language tags: English, Mandarin with and without a region, a proper
\* prefix of "zh", and another language.
LanguageTags ==
    {<<"e", "n">>, <<"z", "h">>, <<"z", "h", "-", "C", "N">>, <<"z">>, <<"j", "a">>}

InitFiller ==
    /\ NoArgs
    /\ pc = "is_filler_word"
    /\ original_text \in SeqsUpTo(FillerAlphabet, MaxFillerLen)
    /\ detected_language \in LanguageTags
    /\ words = <<>> /\ tokens = <<>> /\ result = <<>>
    /\ aligned = <<>>
    /\ silence_threshold = 0 /\ min_silence_duration = 0
    /\ audio_duration_total = 0
    /\ word_segments = <<>> /\ silence_segments = <<>>
    /\ all_segments = <<>> /\ segments = <<>>

CallIsFillerWord ==
    /\ pc = "is_filler_word"
    /\ result' = is_filler_word(original_text, detected_language)
    /\ pc' = "is_filler_word_returned"
    /\ UNCHANGED <<original_text, words, tokens, aligned, detected_language,
                   silence_threshold, min_silence_duration, audio_duration_total,
                   word_segments, silence_segments, all_segments, segments>>
    /\ UNCHANGED arg_vars

NextFiller == CallIsFillerWord

SpecFiller == InitFiller /\ [][NextFiller]_vars

----------------------------------------------------------------------------
(* Properties of tokenize_mixed_text                                       *)

RemoveWhitespace(t) == SelectSeq(t, LAMBDA c : c \notin Whitespace)

IsLatinChar(c) == c \in LatinLower \/ c \in LatinUpper

IsOtherChar(c) == get_char_type(c) = "other"

\* Position, among the non-whitespace characters of t, of the character t[i].
Rank(t, i) == Cardinality({j \in 1..i : t[j] \notin Whitespace})

RECURSIVE TotalLen(_, _)
TotalLen(toks, k) == IF k = 0 THEN 0 ELSE TotalLen(toks, k - 1) + Len(toks[k])

\* Index of the token that holds the r-th non-whitespace character.
TokenIndexOf(toks, r) ==
    CHOOSE k \in 1..Len(toks) : TotalLen(toks, k - 1) < r /\ r <= TotalLen(toks, k)

\* The characters t[i] and t[i+1] are in the same token.
SameToken(t, toks, i) ==
    TokenIndexOf(toks, Rank(t, i)) = TokenIndexOf(toks, Rank(t, i + 1))

\* Positions i such that t[i] and t[i+1] are both non-whitespace.
AdjacentPairs(t) ==
    {i \in 1..(Len(t) - 1) : t[i] \notin Whitespace /\ t[i + 1] \notin Whitespace}

Tokenized == pc = "tokenized"

\* The class names of claim C4: Latin letters, punctuation, other.
ClaimClass(c) ==
    IF IsCJK(c) THEN "cjk"
    ELSE IF IsLatinChar(c) THEN "latin"
    ELSE IF is_punctuation(c) THEN "punct"
    ELSE "other"

\* C4 as stated: every token is a single CJK code point or a run of one class
\* (Latin letters, punctuation, or other characters), no token mixes two
\* classes, and two adjacent characters of the same non-CJK class are never
\* split into different tokens.
C4_AsStated ==
    Tokenized =>
        /\ \A k \in 1..Len(tokens) :
              /\ tokens[k] # <<>>
              /\ \A i \in 1..Len(tokens[k]) :
                    ClaimClass(tokens[k][i]) = ClaimClass(tokens[k][1])
              /\ ClaimClass(tokens[k][1]) = "cjk" => Len(tokens[k]) = 1
        /\ \A i \in AdjacentPairs(original_text) :
              (/\ ClaimClass(original_text[i]) = ClaimClass(original_text[i + 1])
               /\ ClaimClass(original_text[i]) # "cjk")
              => SameToken(original_text, tokens, i)

\* A boundary falls between the adjacent characters t[i], t[i+1] exactly here.
BoundaryExpected(t, i) ==
    \/ IsCJK(t[i]) \/ IsCJK(t[i + 1])
    \/ is_punctuation(t[i]) # is_punctuation(t[i + 1])
    \/ t[i] \in LatinLower /\ t[i + 1] \in LatinUpper
    \/ IsOtherChar(t[i]) /\ i > 1 /\ IsCJK(t[i - 1])

\* C4 (amended): every token is a single CJK code point, a run of punctuation
\* characters only, or a run of Latin letters and other characters (digits,
\* symbols) that may be mixed in one token; two adjacent non-whitespace
\* characters fall in different tokens exactly when one of them is CJK, exactly
\* one of them is punctuation, they are a lowercase letter followed by an
\* uppercase letter, or the first is an other-character that directly follows
\* a CJK code point.
C4_TokenClasses ==
    Tokenized =>
        /\ \A k \in 1..Len(tokens) :
              \/ Len(tokens[k]) = 1 /\ IsCJK(tokens[k][1])
              \/ tokens[k] # <<>> /\
                 \A i \in 1..Len(tokens[k]) : get_char_type(tokens[k][i]) = "punct"
              \/ tokens[k] # <<>> /\
                 \A i \in 1..Len(tokens[k]) :
                     IsLatinChar(tokens[k][i]) \/ IsOtherChar(tokens[k][i])
        /\ \A i \in AdjacentPairs(original_text) :
              SameToken(original_text, tokens, i) <=> ~BoundaryExpected(original_text, i)

\* Witness of C4: a text whose tokenization mixes a letter with a digit, splits
\* at a case change, or splits two digits after a CJK code point.
C4_Witness ==
    /\ Tokenized
    /\ \E i \in AdjacentPairs(original_text) :
          \/ /\ IsLatinChar(original_text[i]) /\ IsOtherChar(original_text[i + 1])
             /\ SameToken(original_text, tokens, i)
          \/ /\ IsOtherChar(original_text[i]) /\ IsOtherChar(original_text[i + 1])
             /\ ~SameToken(original_text, tokens, i)

lightI == <<"l", "i", "g", "h", "t", "I">>

wait_dots == <<"w", "a", "i", "t", ".", ".", ".">>

\* C5: no token holds a lowercase Latin letter directly followed by an
\* uppercase one ("lightI" gives "light", "I"), and adjacent punctuation
\* characters are always in one token ("wait..." gives "wait", "...").
C5_CaseBoundary ==
    Tokenized =>
        /\ \A k \in 1..Len(tokens) : \A i \in 1..(Len(tokens[k]) - 1) :
              ~(tokens[k][i] \in LatinLower /\ tokens[k][i + 1] \in LatinUpper)
        /\ \A i \in AdjacentPairs(original_text) :
              (is_punctuation(original_text[i]) /\ is_punctuation(original_text[i + 1])
               /\ ~IsCJK(original_text[i]) /\ ~IsCJK(original_text[i + 1]))
              => SameToken(original_text, tokens, i)
        /\ tokenize_mixed_text(lightI) = << SubSeq(lightI, 1, 5), <<"I">> >>
        /\ tokenize_mixed_text(wait_dots) = << SubSeq(wait_dots, 1, 4), <<".", ".", ".">> >>

\* Witness of C5: a text with a lowercase letter directly before an uppercase
\* one, split there, and two adjacent punctuation characters kept together.
C5_Witness ==
    /\ Tokenized
    /\ \E i \in AdjacentPairs(original_text) :
          /\ original_text[i] \in LatinLower /\ original_text[i + 1] \in LatinUpper
          /\ ~SameToken(original_text, tokens, i)
    /\ \E i \in AdjacentPairs(original_text) :
          /\ is_punctuation(original_text[i]) /\ is_punctuation(original_text[i + 1])
          /\ SameToken(original_text, tokens, i)

\* C6: every token is non-empty and free of whitespace, and the tokens
\* concatenated in order are the input with its whitespace removed (so an
\* empty or all-whitespace input gives no token and a pending token is
\* emitted at the end of the input).
C6_WhitespaceRemoved ==
    Tokenized =>
        /\ \A k \in 1..Len(tokens) :
              /\ tokens[k] # <<>>
              /\ \A i \in 1..Len(tokens[k]) : tokens[k][i] \notin Whitespace
        /\ Concat(tokens) = RemoveWhitespace(original_text)

\* Witness of C6: whitespace inside the text and a token pending at its end.
C6_Witness ==
    /\ Tokenized
    /\ Len(original_text) >= 3
    /\ \E i \in 2..(Len(original_text) - 1) : original_text[i] \in Whitespace
    /\ get_char_type(original_text[Len(original_text)]) \in {"latin_lower", "other", "punct"}
    /\ Len(tokens) >= 2

----------------------------------------------------------------------------
(* Properties of reconstruct_words_from_text                               *)

Reconstructed == pc = "reconstructed"

\* C1 as stated: the texts of the output records, concatenated in order, are
\* the texts of the raw tokens concatenated in order.
C1_AsStated ==
    Reconstructed => JoinUntrimmed(result) = JoinUntrimmed(words)

\* C1 (amended): the trimmed texts of the output records, concatenated in
\* order, are the trimmed texts of the raw tokens concatenated in order: no
\* raw token is lost, duplicated or reordered, only the whitespace around the
\* text of a merged raw token is dropped.
C1_Conservation ==
    Reconstructed => JoinTrimmed(result) = JoinTrimmed(words)

\* Witness of C1: two raw tokens merged into one record, one of them padded
\* with whitespace that the merged text no longer has.
C1_Witness ==
    /\ Reconstructed
    /\ original_text # <<>>
    /\ Len(result) < Len(words)
    /\ JoinUntrimmed(result) # JoinUntrimmed(words)

\* The spec's example: the text "Hello" and five single-letter raw tokens.
HelloText == <<"H", "e", "l", "l", "o">>

HelloRaw == [i \in 1..Len(HelloText) |-> RawAt(i, <<HelloText[i]>>)]

HelloResult == reconstruct_words_from_text(HelloRaw, HelloText)

\* Every member of a group of raw tokens is one punctuation mark.
AllPunctuation(group) ==
    \A i \in 1..Len(group) : is_punctuation_text(Strip(group[i].word))

\* rec spans the group of raw tokens: first start to last end.
SpansGroup(rec, group) ==
    /\ rec.start = group[1].start
    /\ rec.end = group[Len(group)].end

\* rec spans the group and has the mean of its confidences, or, when
\* punct_full, 1.0 for a group of punctuation marks.
GroupOk(rec, group, punct_full) ==
    /\ SpansGroup(rec, group)
    /\ \/ rec.score = MeanScore(group)
       \/ punct_full /\ AllPunctuation(group) /\ rec.score = ScoreOne

\* out is made of one record per contiguous group of raws, in order, each
\* record related to its group by GroupOk.
RECURSIVE Covers(_, _, _)
Covers(out, raws, punct_full) ==
    IF out = <<>> THEN raws = <<>>
    ELSE \E j \in 1..Len(raws) :
            /\ GroupOk(out[1], SubSeq(raws, 1, j), punct_full)
            /\ Covers(Tail(out), SubSeq(raws, j + 1, Len(raws)), punct_full)

\* C11 as stated: every output record starts with the first raw token it
\* consumed, ends with the last one, and has the mean of their confidences.
C11_AsStated ==
    Reconstructed => Covers(result, words, FALSE)

\* C11 (amended): every output record starts with the first raw token it
\* consumed and ends with the last one; its confidence is the mean of their
\* confidences, except that a record built for a punctuation token has
\* confidence 1.0 whatever the confidences of the marks it consumed.  The
\* text "Hello" with five single-letter raw tokens gives one record from the
\* first start to the last end with the mean confidence.
C11_Timing ==
    /\ Reconstructed => Covers(result, words, TRUE)
    /\ HelloResult
         = << [word  |-> HelloText,
               start |-> 0,
               end   |-> 500 * TicksPerMs,
               score |-> MeanScore(HelloRaw)] >>

\* Witness of C11: two single-letter raw tokens with different confidences
\* merged into one record.
C11_Witness ==
    /\ Reconstructed
    /\ Len(words) = 2 /\ Len(result) = 1
    /\ words[1].score # words[2].score
    /\ result[1].start = words[1].start /\ result[1].end = words[2].end
    /\ result[1].score = MeanScore(words)

\* The text is empty or has only whitespace characters.
BlankText(text) == \A i \in 1..Len(text) : text[i] \in Whitespace

\* C12: when the recognized text is empty or only whitespace, or there are no
\* raw tokens, the output is the raw token sequence unchanged.
C12_Identity ==
    (Reconstructed /\ (words = <<>> \/ BlankText(original_text)))
        => result = words

\* Witness of C12: raw tokens with an empty text, returned unchanged.
C12_Witness ==
    /\ Reconstructed
    /\ original_text = <<>>
    /\ Len(words) = MaxRawTokens
    /\ result = words

\* Raw tokens with a text of blanks only go through the tokenizer, which
\* yields no token, and are returned unchanged as well.
C12_WitnessBlank ==
    /\ Reconstructed
    /\ original_text # <<>> /\ BlankText(original_text)
    /\ tokenize_mixed_text(original_text) = <<>>
    /\ words # <<>>
    /\ result = words

----------------------------------------------------------------------------
(* Properties of transcribe_audio                                          *)

Done == pc = "done"

\* word segments followed by silence segments, as concatenated at line 681
Concatenation == word_segments \o silence_segments

PositionOf(s, id) == CHOOSE i \in 1..Len(s) : s[i].id = id

\* C2: the returned segments are the word segments followed by the silence
\* segments, rearranged so that start never decreases, and segments with the
\* same start keep the order they have in that concatenation.
C2_SortedStable ==
    Done =>
        /\ Len(segments) = Len(Concatenation)
        /\ \A i \in 1..Len(segments) :
              \E j \in 1..Len(Concatenation) :
                  /\ Concatenation[j].id = segments[i].id
                  /\ Concatenation[j].start = segments[i].start
        /\ \A i, j \in 1..Len(segments) :
              i < j =>
                  /\ segments[i].start <= segments[j].start
                  /\ segments[i].start = segments[j].start =>
                        PositionOf(Concatenation, segments[i].id)
                            < PositionOf(Concatenation, segments[j].id)

\* Witness of C2: the sort moved a silence before a word, and a word and a
\* silence with the same start are in the output, the word first.
C2_Witness ==
    /\ Done
    /\ \E i \in 1..(Len(segments) - 1) :
          /\ segments[i].type # "silence" /\ segments[i + 1].type = "silence"
          /\ segments[i].start = segments[i + 1].start
    /\ \E i, j \in 1..Len(segments) :
          i < j /\ segments[i].type = "silence" /\ segments[j].type # "silence"

AllRawWords == Concat([k \in 1..Len(aligned) |-> aligned[k].words])

\* Every raw token has start <= end.
RawBoundsOk == \A i \in 1..Len(AllRawWords) : AllRawWords[i].start <= AllRawWords[i].end

\* Within each utterance the raw tokens are in time order.
RawInTimeOrder ==
    \A k \in 1..Len(aligned) : \A i, j \in 1..Len(aligned[k].words) :
        i < j => aligned[k].words[i].start <= aligned[k].words[j].start

SegmentBoundsOk == \A i \in 1..Len(segments) : segments[i].start <= segments[i].end

\* C3 as stated: given raw tokens with start <= end, every returned segment
\* has start <= end, whatever the text, the order of the raw tokens and the
\* thresholds.
C3_AsStated == (Done /\ RawBoundsOk) => SegmentBoundsOk

\* C3 (amended): given raw tokens with start <= end that are in time order
\* within each utterance, and a minimum silence duration that is not
\* negative, every returned segment has start <= end.
C3_Bounds ==
    (Done /\ RawBoundsOk /\ RawInTimeOrder /\ min_silence_duration >= 0)
        => SegmentBoundsOk

\* Witness of C3: two raw tokens in time order merged into one word, with a
\* silence before or after it.
C3_Witness ==
    /\ Done /\ RawBoundsOk /\ RawInTimeOrder /\ min_silence_duration > 0
    /\ Len(AllRawWords) = 2 /\ Len(word_segments) = 1
    /\ AllRawWords[1].start < AllRawWords[2].start
    /\ word_segments[1].text = <<"a", "a">>
    /\ silence_segments # <<>>

\* The silences the claim C7 lists, as <<start, end>>, in order.
ExpectedSilences ==
    LET w == word_segments
        N == Len(w)
        opening == IF w[1].start >= min_silence_duration
                   THEN << <<0, w[1].start>> >> ELSE <<>>
        pair(i) == IF w[i + 1].start - w[i].end >= min_silence_duration
                   THEN << <<w[i].end, w[i + 1].start>> >> ELSE <<>>
        trailing == IF audio_duration_total - w[N].end >= min_silence_duration
                    THEN << <<w[N].end, Round3(audio_duration_total)>> >> ELSE <<>>
    IN opening \o Concat([i \in 1..(N - 1) |-> pair(i)]) \o trailing

\* C7: for word records w[1..N], N > 0, the silence records are exactly: an
\* opening silence [0, w[1].start] iff w[1].start >= min_silence_duration; a
\* silence [w[i].end, w[i+1].start] for each adjacent pair iff its gap is
\* >= min_silence_duration; a trailing silence from w[N].end to the total
\* duration (as a timestamp, rounded to the millisecond) iff the total
\* duration minus w[N].end is >= min_silence_duration.  So there are at most
\* N + 1 of them.
C7_SilenceSet ==
    (Done /\ word_segments # <<>>) =>
        /\ [k \in 1..Len(silence_segments) |->
               <<silence_segments[k].start, silence_segments[k].end>>] = ExpectedSilences
        /\ Len(silence_segments) <= Len(word_segments) + 1
        /\ \A k \in 1..Len(silence_segments) : silence_segments[k].type = "silence"

\* Witness of C7: two words with a silence between them, the minimum being
\* half a second, and no opening silence because the first gap is too short.
C7_Witness ==
    /\ Done
    /\ min_silence_duration = DEFAULT_MIN_SILENCE_DURATION
    /\ Len(word_segments) = 2
    /\ word_segments[1].start > 0
    /\ word_segments[1].start < min_silence_duration
    /\ \E k \in 1..Len(silence_segments) :
          /\ silence_segments[k].start = word_segments[1].end
          /\ silence_segments[k].end = word_segments[2].start
    /\ silence_segments[1].start # 0

\* C8: a returned silence has isLastInSegment exactly when its duration (the
\* span rounded to one decimal place) is >= silence_threshold or it is the
\* last returned segment, whatever flag it was created with.
C8_SilenceBreak ==
    Done =>
        \A i \in 1..Len(segments) :
            segments[i].type = "silence" =>
                (segments[i].isLastInSegment
                    <=> (segments[i].duration >= silence_threshold \/ i = Len(segments)))

\* Witness of C8: a silence created without the flag (its gap is below the
\* threshold) that has it in the output because the rounded duration reaches
\* the threshold, and one created with the flag that lost it.
C8_Witness ==
    /\ Done
    /\ \E i \in 1..(Len(segments) - 1) : \E k \in 1..Len(silence_segments) :
          /\ segments[i].type = "silence"
          /\ silence_segments[k].id = segments[i].id
          /\ ~silence_segments[k].isLastInSegment
          /\ segments[i].isLastInSegment
    /\ \E i \in 1..(Len(segments) - 1) : \E k \in 1..Len(silence_segments) :
          /\ segments[i].type = "silence"
          /\ silence_segments[k].id = segments[i].id
          /\ silence_segments[k].isLastInSegment
          /\ ~segments[i].isLastInSegment

EndsSentence(text) == text # <<>> /\ text[Len(text)] \in TerminalMarks

\* C9: a returned word or filler has isLastInSegment exactly when it is the
\* last returned segment, or its text ends with a sentence-ending mark and
\* the segment after it is not a silence.
C9_WordBreak ==
    Done =>
        \A i \in 1..Len(segments) :
            segments[i].type # "silence" =>
                (segments[i].isLastInSegment
                    <=> \/ i = Len(segments)
                        \/ /\ EndsSentence(segments[i].text)
                           /\ segments[i + 1].type # "silence")

\* Witness of C9: a word that ends a sentence, followed after 0.05 s by
\* another word with no silence between them, has the flag.
C9_Witness ==
    /\ Done
    /\ \E i \in 1..(Len(segments) - 1) :
          /\ segments[i].type = "word" /\ segments[i + 1].type = "word"
          /\ EndsSentence(segments[i].text)
          /\ segments[i + 1].start - segments[i].end = 50 * TicksPerMs
          /\ segments[i].isLastInSegment

LettersOnly(text) == SelectSeq(text, IsAlphaChar)

WordCharsOnly(text) ==
    SelectSeq(text, LAMBDA c : IsAlphaChar(c) \/ c \in DigitChars \/ c = "_")

HasNoCJK(text) == \A i \in 1..Len(text) : ~IsCJK(text[i])

\* C10 as stated: hasTrailingSpace holds exactly on a word or filler whose
\* isLastInSegment is false and whose text, with every non-letter removed,
\* is non-empty and has no CJK code point.
C10_AsStated ==
    Done =>
        \A i \in 1..Len(segments) :
            segments[i].hasTrailingSpace
                <=> /\ segments[i].type # "silence"
                    /\ ~segments[i].isLastInSegment
                    /\ LettersOnly(segments[i].text) # <<>>
                    /\ HasNoCJK(LettersOnly(segments[i].text))

\* C10 (amended): hasTrailingSpace holds exactly on a word or filler whose
\* isLastInSegment is false and whose text, with every character other than
\* letters, digits and the underscore removed, is non-empty and has no CJK
\* code point; so a number ("7") gets a trailing space, and no silence and
\* no segment with isLastInSegment has one.
C10_TrailingSpace ==
    Done =>
        \A i \in 1..Len(segments) :
            /\ segments[i].hasTrailingSpace
                  <=> /\ segments[i].type # "silence"
                      /\ ~segments[i].isLastInSegment
                      /\ WordCharsOnly(segments[i].text) # <<>>
                      /\ HasNoCJK(WordCharsOnly(segments[i].text))
            /\ (segments[i].type = "silence" \/ segments[i].isLastInSegment)
                  => ~segments[i].hasTrailingSpace

\* Witness of C10: a number, followed by another word, has a trailing space.
C10_Witness ==
    /\ Done
    /\ Len(segments) >= 2
    /\ segments[1].text = <<"7">> /\ segments[1].hasTrailingSpace
    /\ segments[2].type # "silence"

----------------------------------------------------------------------------
(* Properties of is_filler_word                                            *)

FillerReturned == pc = "is_filler_word_returned"

\* text is the filler f in any letter case with whitespace around it.
IsPaddedFiller(text, f) ==
    \E i \in 0..Len(text) :
        /\ i + Len(f) <= Len(text)
        /\ \A k \in 1..i : text[k] \in Whitespace
        /\ \A k \in 1..Len(f) : LowerChar(text[i + k]) = f[k]
        /\ \A k \in (i + Len(f) + 1)..Len(text) : text[k] \in Whitespace

\* f occurs in text as a contiguous part.
ContainsFiller(text, f) ==
    \E i \in 0..Len(text) :
        /\ i + Len(f) <= Len(text)
        /\ \A k \in 1..Len(f) : LowerChar(text[i + k]) = f[k]

\* The lexicon the claim names for a language tag.
LexiconOf(language) ==
    IF Len(language) >= 2 /\ SubSeq(language, 1, 2) = <<"z", "h">>
    THEN FILLER_WORDS_zh ELSE FILLER_WORDS_en

OtherLexiconOf(language) ==
    (FILLER_WORDS_zh \cup FILLER_WORDS_en) \ LexiconOf(language)

\* C13: is_filler_word is true exactly when the lowercased, trimmed text is a
\* member of the Mandarin lexicon for a tag starting with "zh" and of the
\* English lexicon for any other tag; a text that is a filler of the other
\* lexicon, or that contains a filler without being one, is not a filler.
C13_ExactMember ==
    FillerReturned =>
        /\ result = (\E f \in LexiconOf(detected_language) :
                        IsPaddedFiller(original_text, f))
        /\ (\E f \in OtherLexiconOf(detected_language) :
                IsPaddedFiller(original_text, f)) => result = FALSE
        /\ ( /\ \E f \in LexiconOf(detected_language) :
                    ContainsFiller(original_text, f)
             /\ \A f \in LexiconOf(detected_language) :
                    ~IsPaddedFiller(original_text, f) ) => result = FALSE

\* Witness of C13: a filler written with an upper-case letter and a blank is
\* classified under a tag that does not start with "zh".
C13_Witness ==
    /\ FillerReturned
    /\ original_text = <<" ", "U", "m">>
    /\ detected_language = <<"j", "a">>
    /\ result = TRUE

\* A text that contains "um" without being it, and a Mandarin filler under
\* the English lexicon, are not fillers; the regional tag uses the Mandarin
\* lexicon.
C13_WitnessSubstring ==
    /\ FillerReturned
    /\ original_text = <<"u", "m", "m">>
    /\ detected_language = <<"e", "n">>
    /\ result = FALSE

C13_WitnessRegion ==
    /\ FillerReturned
    /\ original_text = <<"U5C31", "U662F">>
    /\ detected_language = <<"z", "h", "-", "C", "N">>
    /\ result = TRUE

----------------------------------------------------------------------------
(* Properties of main                                                      *)

\* A silence segment lies between word i and word i + 1.
SilenceBetween(i) ==
    \E k \in 1..Len(segments) :
        /\ segments[k].type = "silence"
        /\ segments[k].start = word_segments[i].end
        /\ segments[k].end = word_segments[i + 1].start

GapAfter(i) == word_segments[i + 1].start - word_segments[i].end

\* C14 as stated: the value of --min-silence is the minimum silence
\* duration: a gap between two words is marked as a silence segment exactly
\* when it is at least that value.
C14_AsStated ==
    Done => \A i \in 1..(Len(word_segments) - 1) :
                SilenceBetween(i) <=> GapAfter(i) >= args_min_silence

\* What main does instead: a gap is marked exactly when it is at least 0.5 s,
\* and the value of --min-silence decides which silences break the line.
C14_Actual ==
    Done =>
        /\ \A i \in 1..(Len(word_segments) - 1) :
                SilenceBetween(i) <=> GapAfter(i) >= 500 * TicksPerMs
        /\ \A k \in 1..(Len(segments) - 1) :
                segments[k].type = "silence" =>
                    (segments[k].isLastInSegment
                        <=> segments[k].duration >= args_min_silence)

\* Witness of C14: --min-silence 1.0 and a gap of 0.7 s between two words,
\* which is marked as a silence although it is shorter than the option.
C14_Witness ==
    /\ Done
    /\ args_min_silence = 1000 * TicksPerMs
    /\ Len(word_segments) = 2
    /\ GapAfter(1) = 700 * TicksPerMs
    /\ SilenceBetween(1)

----------------------------------------------------------------------------
(* Properties of merge_latin_characters                                    *)

Merged == pc = "merged"

\* Raw tokens i and i + 1 belong together: both are single ASCII letters and
\* the gap between them is at most max_gap.
SameGroup(i) ==
    /\ IsSingleLetterToken(words[i])
    /\ IsSingleLetterToken(words[i + 1])
    /\ words[i + 1].start - words[i].end <= max_gap

\* The indices at which a group starts, and the last index of that group.
GroupStarts == {i \in 1..Len(words) : i = 1 \/ ~SameGroup(i - 1)}

GroupEnd(s) ==
    CHOOSE e \in s..Len(words) :
        /\ \A i \in s..(e - 1) : SameGroup(i)
        /\ e = Len(words) \/ ~SameGroup(e)

\* The record the claim gives for the group from s to e.
GroupRecord(s, e) ==
    IF IsSingleLetterToken(words[s])
    THEN [word  |-> Concat([i \in 1..(e - s + 1) |-> Strip(words[s + i - 1].word)]),
          start |-> words[s].start,
          end   |-> words[e].end,
          score |-> SumScores(SubSeq(words, s, e)) \div (e - s + 1)]
    ELSE words[s]

\* C15: the output has one record per group of the raw tokens, in order,
\* where two adjacent raw tokens are in one group exactly when both are
\* single ASCII letters no more than max_gap apart; a group of letters gives
\* the letters in order from the first start to the last end with the mean
\* confidence, and any other token is alone in its group and unchanged.
C15_Groups ==
    Merged =>
        /\ Len(result) = Cardinality(GroupStarts)
        /\ \A s \in GroupStarts :
              result[Cardinality({t \in GroupStarts : t <= s})]
                  = GroupRecord(s, GroupEnd(s))
        /\ \A s \in GroupStarts :
              ~IsSingleLetterToken(words[s]) => GroupEnd(s) = s

\* Witness of C15: two letters merged and a third letter kept apart because
\* its gap exceeds max_gap.
C15_Witness ==
    /\ Merged
    /\ Len(words) = 3
    /\ \A i \in 1..3 : IsSingleLetterToken(words[i])
    /\ SameGroup(1) /\ ~SameGroup(2)
    /\ Len(result) = 2
    /\ result[1].word = <<"a", "B">>
    /\ result[1].end = words[2].end

----------------------------------------------------------------------------
(* Order of the word records before the silences are computed              *)

SortedByStart(s) == \A i, j \in 1..Len(s) : i < j => s[i].start <= s[j].start

\* a is b with some elements left out.
RECURSIVE IsSubsequence(_, _)
IsSubsequence(a, b) ==
    IF a = <<>> THEN TRUE
    ELSE IF b = <<>> THEN FALSE
    ELSE IF Head(a) = Head(b) THEN IsSubsequence(Tail(a), Tail(b))
    ELSE IsSubsequence(a, Tail(b))

StartsOf(s) == [i \in 1..Len(s) |-> s[i].start]

RawStartsRounded == [i \in 1..Len(AllRawWords) |-> Round3(AllRawWords[i].start)]

\* C16 as stated: the silences are computed from a word-record sequence that
\* is non-decreasing by start, whatever the order of the input.
C16_AsStated == Done => SortedByStart(word_segments)

\* C16 (amended): the word records are concatenated in the order of the
\* input, utterance by utterance and token by token, and are not sorted; the
\* silences are computed from that sequence, the opening silence from its
\* first record.  The sequence is non-decreasing by start when the raw tokens
\* of the input are.
C16_InputOrder ==
    Done =>
        /\ IsSubsequence(StartsOf(word_segments), RawStartsRounded)
        /\ SortedByStart(AllRawWords) => SortedByStart(word_segments)
        /\ (word_segments # <<>> /\ word_segments[1].start >= min_silence_duration)
              => /\ silence_segments # <<>>
                 /\ silence_segments[1].start = 0
                 /\ silence_segments[1].end = word_segments[1].start

\* Witness of C16: two words given latest first; the opening silence runs to
\* the start of the first one given and so covers the other.
C16_Witness ==
    /\ Done
    /\ Len(word_segments) = 2
    /\ word_segments[2].end < word_segments[1].start
    /\ silence_segments # <<>>
    /\ silence_segments[1].start = 0
    /\ silence_segments[1].end = word_segments[1].start

----------------------------------------------------------------------------
(* The break after a sentence that a silence follows                       *)

\* Segment i is a word that ends a sentence and segment i + 1 is a silence.
SentenceThenSilence(i) ==
    /\ i < Len(segments)
    /\ segments[i].type # "silence"
    /\ EndsSentence(segments[i].text)
    /\ segments[i + 1].type = "silence"

\* C17 as stated: whenever a word that ends with sentence-terminal
\* punctuation is immediately followed by a silence in the output, that
\* silence has isLastInSegment = true, so the break is not lost.
C17_AsStated ==
    Done => \A i \in 1..Len(segments) :
                SentenceThenSilence(i) => segments[i + 1].isLastInSegment

\* Witness of C17: a sentence end followed by a silence shorter than
\* silence_threshold and by another word: neither the word nor the silence
\* breaks the line.
C17_Witness ==
    /\ Done
    /\ \E i \in 1..Len(segments) :
          /\ SentenceThenSilence(i)
          /\ i + 1 < Len(segments)
          /\ segments[i + 1].duration < silence_threshold
          /\ ~segments[i].isLastInSegment
          /\ ~segments[i + 1].isLastInSegment

----------------------------------------------------------------------------
(* Properties of get_compute_type                                          *)

ComputeTypeReturned == pc = "compute_type_returned"

\* C18 as stated: "cpu" gives "int8", "cuda" gives "float16" and "mps" gives
\* "float32".
C18_AsStated ==
    ComputeTypeReturned =>
        /\ device = <<"c", "p", "u">> => compute_type = <<"i", "n", "t", "8">>
        /\ device = <<"c", "u", "d", "a">>
              => compute_type = <<"f", "l", "o", "a", "t", "1", "6">>
        /\ device = <<"m", "p", "s">>
              => compute_type = <<"f", "l", "o", "a", "t", "3", "2">>

\* What the function returns: "float16" for "cuda" and "int8" for every
\* other device.
C18_Actual ==
    ComputeTypeReturned =>
        compute_type = IF device = <<"c", "u", "d", "a">>
                       THEN <<"f", "l", "o", "a", "t", "1", "6">>
                       ELSE <<"i", "n", "t", "8">>

\* Witness of C18: the device "mps" gives "int8".
C18_Witness ==
    /\ ComputeTypeReturned
    /\ device = <<"m", "p", "s">>
    /\ compute_type = <<"i", "n", "t", "8">>

----------------------------------------------------------------------------
(* No overlap in the output                                                *)

\* The word records are in time order and do not overlap, the minimum
\* silence is positive and the audio does not end before the last word.
WordsWellFormed ==
    /\ SortedByStart(word_segments)
    /\ \A i \in 1..Len(word_segments) : word_segments[i].start <= word_segments[i].end
    /\ \A i \in 1..(Len(word_segments) - 1) :
          word_segments[i].end <= word_segments[i + 1].start
    /\ min_silence_duration > 0
    /\ word_segments # <<>> =>
          audio_duration_total >= word_segments[Len(word_segments)].end

NoOverlap ==
    \A k \in 1..(Len(segments) - 1) : segments[k].end <= segments[k + 1].start

\* The silence at position k lies between the words around it, or at an edge
\* of the transcript next to the first or the last word.
SilenceInPlace(k) ==
    /\ \/ k = 1 /\ segments[k].start = 0
       \/ /\ k > 1
          /\ segments[k - 1].type # "silence"
          /\ segments[k - 1].end = segments[k].start
    /\ \/ k = Len(segments) /\ segments[k].end = Round3(audio_duration_total)
       \/ /\ k < Len(segments)
          /\ segments[k + 1].type # "silence"
          /\ segments[k + 1].start = segments[k].end

\* C19: when the word records are in time order, each with start <= end and
\* end <= the next start, the minimum silence is positive and the total
\* duration is not before the last end, consecutive returned segments do
\* not overlap and every silence lies exactly between the two words it was
\* derived from, or at the edge of the transcript.
C19_NoOverlap ==
    (Done /\ WordsWellFormed) =>
        /\ NoOverlap
        /\ \A k \in 1..Len(segments) :
              segments[k].type = "silence" => SilenceInPlace(k)

\* Witness of C19: an opening, an inner and a trailing silence around words,
\* one of the words of no length.
C19_Witness ==
    /\ Done /\ WordsWellFormed
    /\ Len(word_segments) >= 2
    /\ Len(silence_segments) = 3
    /\ \E i \in 1..Len(word_segments) : word_segments[i].start = word_segments[i].end
    /\ segments[1].type = "silence"
    /\ segments[Len(segments)].type = "silence"

----------------------------------------------------------------------------
(* No word, no output                                                      *)

\* There is no utterance, or every raw token has an empty trimmed text.
NoWordInInput ==
    \A i \in 1..Len(AllRawWords) : Strip(AllRawWords[i].word) = <<>>

\* C20: when no word record is produced, the output is empty: there is no
\* opening and no trailing silence, whatever the total duration and the
\* minimum silence duration.
C20_EmptyOutput ==
    (Done /\ (NoWordInInput \/ word_segments = <<>>)) =>
        /\ word_segments = <<>>
        /\ silence_segments = <<>>
        /\ segments = <<>>

\* Witness of C20: utterances whose raw tokens are all blank, in audio long
\* enough for a silence.
C20_Witness ==
    /\ Done
    /\ Len(AllRawWords) = MaxWords
    /\ NoWordInInput
    /\ min_silence_duration > 0
    /\ audio_duration_total >= min_silence_duration
    /\ segments = <<>>

============================================================================
